---- MODULE Spec2Model ----
(***************************************************************************)
(* Model of langchain/llms/sagemaker_endpoint.py: the SagemakerEndpoint    *)
(* wrapper.  Construction runs the pydantic field validation and the       *)
(* root validator validate_environment; _call sends one request to the     *)
(* client and unwraps the reply.                                           *)
(*                                                                         *)
(* Python values are tagged records; Python strings are TLA+ strings.      *)
(* The outcome of a Python call is Return(v) or Raise(exc, msg), where exc *)
(* is the name of the exception class and msg is str(exception).           *)
(***************************************************************************)
EXTENDS Integers, Sequences, FiniteSets, TLC

VARIABLES phase, self, ctor, endpoint, calls, sent

vars == <<phase, self, ctor, endpoint, calls, sent>>

\* Bound on the number of _call invocations of one run.
MaxCalls == 3

-----------------------------------------------------------------------------
(* Python values *)

None == [kind |-> "none"]
Str(s) == [kind |-> "str", s |-> s]
PyInt(n) == [kind |-> "int", n |-> n]
List(xs) == [kind |-> "list", xs |-> xs]
Dict(f) == [kind |-> "dict", f |-> f]
EmptyDict == Dict([k \in {} |-> None])

Return(v) == [kind |-> "return", value |-> v]
Raise(exc, msg) == [kind |-> "raise", exc |-> exc, msg |-> msg]

\* The exception classes of the model and their direct base class.
Bases ==
  [ ValueError |-> "Exception", TypeError |-> "Exception",
    LookupError |-> "Exception", KeyError |-> "LookupError",
    IndexError |-> "LookupError", ImportError |-> "Exception",
    RuntimeError |-> "Exception", NoRegionError |-> "Exception",
    ValidationError |-> "ValueError",
    Exception |-> "BaseException", KeyboardInterrupt |-> "BaseException",
    SystemExit |-> "BaseException", BaseException |-> "object" ]

RECURSIVE IsSubclass(_, _)
IsSubclass(exc, base) ==
  IF exc = base THEN TRUE
  ELSE IF exc = "object" THEN FALSE
  ELSE IsSubclass(Bases[exc], base)

\* a in b for strings: a occurs in b as a substring.
IsSubstring(a, b) ==
  \E i \in 1..(Len(b) - Len(a) + 1) : SubSeq(b, i, i + Len(a) - 1) = a

\* Equality of two Python values.
PyEq(a, b) == a.kind = b.kind /\ a = b

\* str(v), for the values that reach an f-string in this module.
PyStr(v) ==
  CASE v.kind = "str" -> v.s
    [] v.kind = "int" -> ToString(v.n)
    [] v.kind = "none" -> "None"

\* type(v).__name__
TypeName(v) ==
  CASE v.kind = "str" -> "str"
    [] v.kind = "int" -> "int"
    [] v.kind = "none" -> "NoneType"
    [] v.kind = "list" -> "list"
    [] v.kind = "dict" -> "dict"

\* item in container
Contains(item, container) ==
  CASE container.kind = "dict" ->
         Return(item.kind = "str" /\ item.s \in DOMAIN container.f)
    [] container.kind = "list" ->
         Return(\E i \in 1..Len(container.xs) : PyEq(item, container.xs[i]))
    [] container.kind = "str" ->
         IF item.kind = "str"
         THEN Return(IsSubstring(item.s, container.s))
         ELSE Raise("TypeError",
                    "'in <string>' requires string as left operand, not "
                      \o TypeName(item))
    [] OTHER ->
         Raise("TypeError", "argument of type '" \o TypeName(container)
                              \o "' is not iterable")

\* repr(key), as it appears in the message of a KeyError.
Repr(v) == IF v.kind = "str" THEN "'" \o v.s \o "'" ELSE PyStr(v)

\* container[key]
GetItem(container, key) ==
  CASE container.kind = "dict" ->
         IF key.kind = "str" /\ key.s \in DOMAIN container.f
         THEN Return(container.f[key.s])
         ELSE Raise("KeyError", Repr(key))
    [] container.kind = "list" ->
         IF key.kind # "int"
         THEN Raise("TypeError",
                    "list indices must be integers or slices, not "
                      \o TypeName(key))
         ELSE IF key.n >= 0 /\ key.n < Len(container.xs)
         THEN Return(container.xs[key.n + 1])
         ELSE Raise("IndexError", "list index out of range")
    [] container.kind = "str" ->
         IF key.kind # "int"
         THEN Raise("TypeError", "string indices must be integers")
         ELSE IF key.n >= 0 /\ key.n < Len(container.s)
         THEN Return(Str(SubSeq(container.s, key.n + 1, key.n + 1)))
         ELSE Raise("IndexError", "string index out of range")
    [] OTHER ->
         Raise("TypeError", "'" \o TypeName(container)
                              \o "' object is not subscriptable")

-----------------------------------------------------------------------------
(* The class *)

VALID_TASKS == <<"text2text-generation", "text-generation">>

\* repr(VALID_TASKS), as the f-string of validate_environment prints it.
VALID_TASKS_repr == "('text2text-generation', 'text-generation')"

\* The object sagemaker.predictor.Predictor(...) builds.
Predictor(endpoint_name, sagemaker_session) ==
  [kind |-> "Predictor", endpoint_name |-> endpoint_name,
   sagemaker_session |-> sagemaker_session]

\* values.get(key)
Get(values, key) == IF key \in DOMAIN values THEN values[key] ELSE None

\* The message of the ValueError that replaces an ImportError (the source
\* puts the pip command between backquotes, which a TLA+ string cannot hold).
ImportMessage ==
  "Could not import sagemaker python package. "
    \o "Please install sagemaker pip install sagemaker."

\* The sagemaker imports and the Predictor(...) call of the root validator.
\* env.import is the outcome of the three imports from the sagemaker
\* package, env.predictor that of Predictor(...).
make_predictor(values, env) ==
  IF env.import.kind = "raise" THEN env.import
  ELSE IF "endpoint_name" \notin DOMAIN values
  THEN Raise("KeyError", "'endpoint_name'")
  ELSE IF "sagemaker_session" \notin DOMAIN values
  THEN Raise("KeyError", "'sagemaker_session'")
  ELSE IF env.predictor.kind = "raise" THEN env.predictor
  ELSE Return(Predictor(values["endpoint_name"], values["sagemaker_session"]))

\* values["client"] = predictor, dropped.
store_client_Dropped(values, predictor) == values

\* values["client"] = predictor
store_client(values, predictor) ==
  [k \in DOMAIN values \cup {"client"} |->
     IF k = "client" THEN predictor ELSE values[k]]

\* The task check, accepting every task.
check_task_AcceptsAll(values) == Return(values)

\* The task check of the root validator.
check_task(values) ==
  LET task == Get(values, "task")
  IN  IF \A i \in 1..Len(VALID_TASKS) : ~PyEq(task, Str(VALID_TASKS[i]))
      THEN Raise("ValueError",
                 "Got invalid task " \o PyStr(task) \o ", "
                   \o "currently only " \o VALID_TASKS_repr
                   \o " are supported")
      ELSE Return(values)

\* The root validator: the body of the try block, then its except clause.
validate_environment(values, env) ==
  LET made == make_predictor(values, env)
      body == IF made.kind = "raise" THEN made
              ELSE check_task(store_client(values, made.value))
  IN  IF body.kind = "raise" /\ IsSubclass(body.exc, "ImportError")
      THEN Raise("ValueError", ImportMessage)
      ELSE body

\* The fields the class declares, and those without a default (an Any or
\* Optional annotation gives the field the default None).
Fields == {"client", "endpoint_name", "sagemaker_session", "task",
           "model_kwargs"}
RequiredFields == {"endpoint_name", "task"}

\* The error list of a pydantic ValidationError, as str() prints it.
RECURSIVE Display(_)
Display(errors) ==
  IF errors = <<>> THEN ""
  ELSE "\n" \o errors[1].loc \o "\n  " \o errors[1].msg \o Display(Tail(errors))

\* SagemakerEndpoint(**kwargs): the field validation of the pydantic model,
\* then the root validator, whose ValueError, TypeError or AssertionError
\* joins the error list while any other exception leaves the constructor
\* as it is.  Returns the outcome; the value returned is the new object.
__init__(kwargs, env) ==
  LET present == {f \in Fields : f \in DOMAIN kwargs \/ f \notin RequiredFields}
      values == [f \in present |-> IF f \in DOMAIN kwargs THEN kwargs[f] ELSE None]
      missing == [f \in {"endpoint_name", "task"} |->
                    IF f \in DOMAIN kwargs THEN <<>>
                    ELSE <<[loc |-> f, msg |-> "field required"]>>]
      fieldErrors == missing["endpoint_name"] \o missing["task"]
      r == validate_environment(values, env)
      caught == r.kind = "raise"
                  /\ \E c \in {"ValueError", "TypeError", "AssertionError"} :
                        IsSubclass(r.exc, c)
      errors == IF caught
                THEN Append(fieldErrors, [loc |-> "__root__", msg |-> r.msg])
                ELSE fieldErrors
  IN  IF r.kind = "raise" /\ ~caught THEN r
      ELSE IF errors # <<>>
      THEN Raise("ValidationError",
                 ToString(Len(errors)) \o " validation error"
                   \o (IF Len(errors) > 1 THEN "s" ELSE "")
                   \o " for SagemakerEndpoint" \o Display(errors))
      ELSE Return([kind |-> "SagemakerEndpoint",
                   client |-> r.value["client"],
                   endpoint_name |-> r.value["endpoint_name"],
                   sagemaker_session |-> r.value["sagemaker_session"],
                   task |-> r.value["task"],
                   model_kwargs |-> r.value["model_kwargs"]])

\* self.client.predict(request): the predictor sends the request to the
\* endpoint it is bound to and hands back the reply, or raises.
predict(client, request, remote) == remote[request]

\* The try block of _call, without the cause in the message.
call_client_NoCause(slf, prompt, remote) ==
  LET request == Dict("inputs" :> prompt)
      reply == predict(slf.client, request, remote)
  IN  [out |-> IF reply.kind = "raise" /\ IsSubclass(reply.exc, "Exception")
               THEN Raise("ValueError", "Error raised by inference endpoint")
               ELSE reply,
       sent |-> <<request>>]

\* The try block of _call, sending the request again after an exception.
call_client_Retries(slf, prompt, remote) ==
  LET request == Dict("inputs" :> prompt)
      reply == predict(slf.client, request, remote)
  IN  IF reply.kind = "raise" /\ IsSubclass(reply.exc, "Exception")
      THEN LET again == predict(slf.client, request, remote)
           IN  [out |-> IF again.kind = "raise"
                          /\ IsSubclass(again.exc, "Exception")
                        THEN Raise("ValueError",
                                   "Error raised by inference endpoint: "
                                     \o again.msg)
                        ELSE again,
                sent |-> <<request, request>>]
      ELSE [out |-> reply, sent |-> <<request>>]

\* The try block of _call: builds the request, gives it to
\* self.client.predict and replaces an Exception by a ValueError.  Yields
\* the outcome and the requests given to predict, in order.
call_client(slf, prompt, remote) ==
  LET request == Dict("inputs" :> prompt)
      reply == predict(slf.client, request, remote)
  IN  [out |-> IF reply.kind = "raise" /\ IsSubclass(reply.exc, "Exception")
               THEN Raise("ValueError",
                          "Error raised by inference endpoint: " \o reply.msg)
               ELSE reply,
       sent |-> <<request>>]

\* The rest of _call, reading the text before it looks for an error.
unwrap_TextFirst(response) ==
  LET first == GetItem(response, PyInt(0))
  IN  IF first.kind = "raise" THEN first
      ELSE GetItem(first.value, Str("generated_text"))

\* The rest of _call, after the try block: the error check and the
\* extraction of the generated text.
unwrap(response) ==
  LET hasError == Contains(Str("error"), response)
  IN  IF hasError.kind = "raise" THEN hasError
      ELSE IF hasError.value
      THEN LET err == GetItem(response, Str("error"))
           IN  IF err.kind = "raise" THEN err
               ELSE Raise("ValueError",
                          "Error raised by inference API: " \o PyStr(err.value))
      ELSE LET first == GetItem(response, PyInt(0))
           IN  IF first.kind = "raise" THEN first
               ELSE GetItem(first.value, Str("generated_text"))

\* _call, keeping the last prompt in self.model_kwargs.
_call_KeepsPrompt(slf, prompt, stop, remote) ==
  LET c == call_client(slf, prompt, remote)
  IN  [out |-> IF c.out.kind = "raise" THEN c.out ELSE unwrap(c.out.value),
       self |-> [slf EXCEPT !.model_kwargs = Dict("prompt" :> prompt)],
       sent |-> c.sent]

\* SagemakerEndpoint._call.  remote is the behaviour of the endpoint behind
\* self.client.  Yields the outcome, the object after the call and the
\* requests given to self.client.predict, in order.  stop is not read.
_call(slf, prompt, stop, remote) ==
  LET c == call_client(slf, prompt, remote)
  IN  [out |-> IF c.out.kind = "raise" THEN c.out ELSE unwrap(c.out.value),
       self |-> slf,
       sent |-> c.sent]

-----------------------------------------------------------------------------
(* The inputs of the model *)

NoArgs == [k \in {} |-> None]

\* Keyword arguments of the constructor, one choice per field.
EndpointNameArgs == {NoArgs, "endpoint_name" :> Str("some-endpoint")}
TaskArgs == {NoArgs} \cup
            {"task" :> Str(t) : t \in {"text2text-generation",
                                       "text-generation", "summarization"}}
ModelKwargsArgs == {NoArgs, "model_kwargs" :> Dict("temperature" :> PyInt(1))}
SessionArgs == {NoArgs, "sagemaker_session" :> [kind |-> "Session"]}
ClientArgs == {NoArgs, "client" :> Str("my-client")}

Kwargs == {e @@ t @@ m @@ s @@ c :
             e \in EndpointNameArgs, t \in TaskArgs, m \in ModelKwargsArgs,
             s \in SessionArgs, c \in ClientArgs}

\* What the sagemaker package does during construction.
Envs ==
  { [import |-> Return(None), predictor |-> Return(None)],
    [import |-> Raise("ImportError", "No module named 'sagemaker'"),
     predictor |-> Return(None)],
    [import |-> Return(None),
     predictor |-> Raise("NoRegionError", "You must specify a region.")],
    [import |-> Return(None),
     predictor |-> Raise("ValueError", "Must setup local AWS configuration")] }

Prompts == {Str("hi"), Str("Tell me a joke.")}
Requests == {Dict("inputs" :> p) : p \in Prompts}

Stops == {None, List(<<Str("world")>>), List(<<Str("c"), Str("b")>>)}

Generated(text) == Dict("generated_text" :> text)

\* What client.predict may do with a request.
Replies ==
  { Return(List(<<Generated(Str("Hello world"))>>)),
    Return(List(<<Generated(Str("abc"))>>)),
    Return(List(<<Generated(Str("Hello world")), Str("error")>>)),
    Return(List(<<Generated(PyInt(5))>>)),
    Return(Dict("error" :> Str("boom"))),
    Return(Dict("error" :> None)),
    Return(EmptyDict),
    Return(List(<<>>)),
    Return(List(<<EmptyDict>>)),
    Return(List(<<PyInt(5)>>)),
    Return(List(<<Str("error")>>)),
    Return(Str("Internal server error")),
    Return(None),
    Raise("RuntimeError", "timed out"),
    Raise("KeyboardInterrupt", "") }

\* The replies to the second prompt are drawn from a smaller set.
FewReplies ==
  { Return(List(<<Generated(Str("abc"))>>)),
    Return(Dict("error" :> Str("boom"))),
    Raise("RuntimeError", "timed out") }

\* A deterministic endpoint: the reply is a function of the request.
Endpoints ==
  { r \in [Requests -> Replies] :
      r[Dict("inputs" :> Str("Tell me a joke."))] \in FewReplies }

-----------------------------------------------------------------------------
(* The state machine *)

Init ==
  /\ phase = "new"
  /\ self = None
  /\ ctor = None
  /\ endpoint \in Endpoints
  /\ calls = <<>>
  /\ sent = <<>>

\* se = SagemakerEndpoint(**kwargs)
Construct ==
  /\ phase = "new"
  /\ \E kwargs \in Kwargs, env \in Envs :
       LET out == __init__(kwargs, env)
       IN  /\ ctor' = [kind |-> "ctor", kwargs |-> kwargs, env |-> env,
                       out |-> out]
           /\ IF out.kind = "return"
              THEN self' = out.value /\ phase' = "constructed"
              ELSE self' = None /\ phase' = "failed"
  /\ UNCHANGED <<endpoint, calls, sent>>

\* se._call(prompt, stop)
Call ==
  /\ phase = "constructed"
  /\ Len(calls) < MaxCalls
  /\ \E prompt \in Prompts, stop \in Stops :
       LET r == _call(self, prompt, stop, endpoint)
       IN  /\ self' = r.self
           /\ calls' = Append(calls, [prompt |-> prompt, stop |-> stop,
                                      out |-> r.out, sent |-> r.sent])
           /\ sent' = sent \o r.sent
  /\ UNCHANGED <<phase, ctor, endpoint>>

Next == Construct \/ Call

Spec == Init /\ [][Next]_vars

TypeOK ==
  /\ phase \in {"new", "constructed", "failed"}
  /\ Len(calls) <= MaxCalls

-----------------------------------------------------------------------------
(* Vocabulary of the properties *)

\* The two error kinds of the specification are both ValueError in the
\* source: the one _call raises, and the one the constructor raises (the
\* pydantic ValidationError is a ValueError).
IsInferenceError(out) == out.kind = "raise" /\ IsSubclass(out.exc, "ValueError")
IsConfigurationError(out) ==
  out.kind = "raise" /\ IsSubclass(out.exc, "ValueError")

CallIds == 1..Len(calls)

\* What client.predict did in the i-th call.
ReplyOf(i) == endpoint[Dict("inputs" :> calls[i].prompt)]

IsGenerated(v) ==
  v.kind = "dict" /\ "generated_text" \in DOMAIN v.f
    /\ v.f["generated_text"].kind = "str"

\* A sequence whose first element is an object with a "generated_text" string.
WellFormed(reply) ==
  /\ reply.kind = "return"
  /\ reply.value.kind = "list"
  /\ Len(reply.value.xs) > 0
  /\ IsGenerated(reply.value.xs[1])

TextOf(reply) == reply.value.xs[1].f["generated_text"]

\* A mapping without an "error" key, an empty sequence, a sequence whose first
\* element lacks the "generated_text" key or is not an object.
Malformed(reply) ==
  /\ reply.kind = "return"
  /\ \/ reply.value.kind = "dict" /\ "error" \notin DOMAIN reply.value.f
     \/ reply.value.kind = "list" /\ Len(reply.value.xs) = 0
     \/ /\ reply.value.kind = "list" /\ Len(reply.value.xs) > 0
        /\ \/ reply.value.xs[1].kind # "dict"
           \/ "generated_text" \notin DOMAIN reply.value.xs[1].f

HasErrorKey(reply) ==
  /\ reply.kind = "return"
  /\ reply.value.kind = "dict"
  /\ "error" \in DOMAIN reply.value.f

\* The offsets of text at which an element of stop occurs.
StopOffsets(text, stop) ==
  {i \in 1..Len(text) :
     \E k \in 1..Len(stop.xs) :
        /\ i + Len(stop.xs[k].s) - 1 <= Len(text)
        /\ SubSeq(text, i, i + Len(stop.xs[k].s) - 1) = stop.xs[k].s}

\* text cut immediately before the first occurrence of an element of stop.
Truncated(text, stop) ==
  LET offs == StopOffsets(text, stop)
  IN  IF offs = {} THEN text
      ELSE SubSeq(text, 1, (CHOOSE i \in offs : \A j \in offs : i <= j) - 1)

TaskIsValid(kwargs) ==
  /\ "task" \in DOMAIN kwargs
  /\ \E i \in 1..Len(VALID_TASKS) : kwargs["task"] = Str(VALID_TASKS[i])

\* The imports and the Predictor(...) call both succeed.
FactoryWorks(env) == env.import.kind = "return" /\ env.predictor.kind = "return"

\* The client factory was invoked and failed.
FactoryFailed(kwargs, env) ==
  \/ env.import.kind = "raise"
  \/ "endpoint_name" \in DOMAIN kwargs /\ env.predictor.kind = "raise"

Attempted == phase # "new"

-----------------------------------------------------------------------------
(* Properties *)

\* C1: a malformed response of client.predict (a mapping without "error", an
\* empty sequence, a first element without "generated_text" or of the wrong
\* type) makes _call fail with the error kind of the other failures.
C1_MalformedIsInferenceError ==
  \A i \in CallIds : Malformed(ReplyOf(i)) => IsInferenceError(calls[i].out)

\* C2: with a non-empty stop list and a well-formed response, the string
\* returned is the generated text cut before the first occurrence of any stop
\* sequence, and the text itself when none occurs.
C2_StopTruncates ==
  \A i \in CallIds :
     ( /\ calls[i].stop.kind = "list" /\ Len(calls[i].stop.xs) > 0
       /\ WellFormed(ReplyOf(i))
       /\ calls[i].out.kind = "return" )
     => calls[i].out.value
          = Str(Truncated(TextOf(ReplyOf(i)).s, calls[i].stop))

\* C3 as stated: every exception raised by client.predict, whatever its type,
\* comes out of _call as the ValueError carrying its message.
C3_EveryExceptionWrapped ==
  \A i \in CallIds :
     ReplyOf(i).kind = "raise"
     => /\ IsInferenceError(calls[i].out)
        /\ IsSubstring(ReplyOf(i).msg, calls[i].out.msg)

\* C3 amended: every exception raised by client.predict whose class derives
\* from Exception comes out of _call as a ValueError whose message ends with
\* the message of the exception.
C3_ExceptionWrapped ==
  \A i \in CallIds :
     (ReplyOf(i).kind = "raise" /\ IsSubclass(ReplyOf(i).exc, "Exception"))
     => /\ calls[i].out.kind = "raise"
        /\ calls[i].out.exc = "ValueError"
        /\ calls[i].out.msg
             = "Error raised by inference endpoint: " \o ReplyOf(i).msg
        /\ IsSubstring(ReplyOf(i).msg, calls[i].out.msg)

C3_Witness ==
  \E i \in CallIds :
     /\ ReplyOf(i) = Raise("RuntimeError", "timed out")
     /\ calls[i].out.kind = "raise"
     /\ calls[i].out.exc = "ValueError"

\* C4: every failure of the client factory during construction comes out of
\* the constructor as the configuration error, and no object is created.
C4_FactoryFailureIsConfigurationError ==
  (Attempted /\ FactoryFailed(ctor.kwargs, ctor.env))
  => IsConfigurationError(ctor.out) /\ self = None

\* C5 as stated, in the constructions where an endpoint name is given and
\* Predictor(...) raises nothing: a task outside VALID_TASKS (or no task)
\* makes the constructor fail with the configuration error naming the task
\* and the allowed set.
C5_InvalidTaskIsConfigurationError ==
  ( /\ Attempted /\ ~TaskIsValid(ctor.kwargs)
    /\ "endpoint_name" \in DOMAIN ctor.kwargs
    /\ ctor.env.predictor.kind = "return" )
  => /\ IsConfigurationError(ctor.out)
     /\ IsSubstring("Got invalid task " \o PyStr(Get(ctor.kwargs, "task")),
                    ctor.out.msg)
     /\ IsSubstring(VALID_TASKS_repr, ctor.out.msg)

\* C5 amended: a task outside VALID_TASKS (or no task) never yields an object,
\* so no call is ever made with it; when the client factory works and an
\* endpoint name is given, the constructor fails with the configuration error
\* naming the task and the allowed set; when the sagemaker package cannot be
\* imported, it fails with the configuration error of the import instead.
C5_InvalidTaskRejected ==
  (Attempted /\ ~TaskIsValid(ctor.kwargs))
  => /\ ctor.out.kind = "raise"
     /\ phase = "failed" /\ self = None /\ calls = <<>>
     /\ (FactoryWorks(ctor.env) /\ "endpoint_name" \in DOMAIN ctor.kwargs)
        => /\ IsConfigurationError(ctor.out)
           /\ IsSubstring("Got invalid task "
                            \o PyStr(Get(ctor.kwargs, "task")) \o ",",
                          ctor.out.msg)
           /\ IsSubstring(VALID_TASKS_repr, ctor.out.msg)
     /\ (ctor.env.import.kind = "raise")
        => /\ IsConfigurationError(ctor.out)
           /\ IsSubstring(ImportMessage, ctor.out.msg)
           /\ ~IsSubstring("Got invalid task", ctor.out.msg)

C5_Witness ==
  /\ phase = "failed"
  /\ "task" \in DOMAIN ctor.kwargs
  /\ ctor.kwargs["task"] = Str("summarization")
  /\ FactoryWorks(ctor.env)
  /\ "endpoint_name" \in DOMAIN ctor.kwargs
  /\ ctor.out.exc = "ValidationError"

C7_ErrorKeyRaises ==
  \A i \in CallIds :
     HasErrorKey(ReplyOf(i))
     => /\ calls[i].out.kind = "raise"
        /\ IsInferenceError(calls[i].out)
        /\ calls[i].out.msg
             = "Error raised by inference API: "
                 \o PyStr(ReplyOf(i).value.f["error"])

C7_Witness ==
  \E i \in CallIds :
     /\ ReplyOf(i) = Return(Dict("error" :> Str("boom")))
     /\ calls[i].out.kind = "raise"
     /\ IsSubstring("boom", calls[i].out.msg)

\* C8: with no stop sequence, a sequence whose first element is an object with
\* a "generated_text" string makes _call return exactly that string.
C8_NoStopReturnsText ==
  \A i \in CallIds :
     (calls[i].stop = None /\ WellFormed(ReplyOf(i)))
     => calls[i].out = Return(TextOf(ReplyOf(i)))

\* C9: every _call gives client.predict exactly one request, whose "inputs"
\* is the prompt, whatever the outcome; nothing is sent a second time.
C9_OneRequestPerCall ==
  /\ Len(sent) = Len(calls)
  /\ \A i \in CallIds :
        /\ calls[i].sent = <<Dict("inputs" :> calls[i].prompt)>>
        /\ sent[i] = Dict("inputs" :> calls[i].prompt)

C9_Witness ==
  /\ Len(calls) = 2
  /\ calls[1].out.kind = "raise"
  /\ ReplyOf(1).kind = "raise"
  /\ calls[2].out.kind = "raise"
  /\ Len(sent) = 2

\* C10: after any calls the object is the one the constructor built, and two
\* calls with the same prompt and stop have the same outcome, whatever was
\* called in between.
C10_Stateless ==
  phase = "constructed"
  => /\ self = ctor.out.value
     /\ \A i, j \in CallIds :
          (calls[i].prompt = calls[j].prompt /\ calls[i].stop = calls[j].stop)
          => calls[i].out = calls[j].out

C10_Witness ==
  /\ Len(calls) = 3
  /\ calls[1].prompt = calls[3].prompt /\ calls[1].stop = calls[3].stop
  /\ calls[2].prompt # calls[1].prompt
  /\ calls[1].out.kind = "return"
  /\ calls[2].out.kind = "raise"
  /\ self = ctor.out.value

====
